---------------------------- MODULE Spec2Model ----------------------------
(***************************************************************************)
(* Model of the garden measurements service: the /measurements router      *)
(* (validator chain and route handlers over the memory-cache store) and    *)
(* the /stats aggregation.                                                  *)
(*                                                                          *)
(* Encoding of JavaScript values                                            *)
(*   - a string is the sequence of its characters (one-character strings); *)
(*     field values such as "27.1" are <<"2","7",".","1">>;                *)
(*   - a number is an exact rational [nan, num, den] (den > 0);            *)
(*   - a JS value is [t, s, n] with t in {"undefined","string","number"}.  *)
(*   - a timestamp string is the sequence of its lexical parts: the       *)
(*     10-character date YYYY-MM-DD (a day count since 1970-01-01), the    *)
(*     letter T, and the time of day, spelled canonically                  *)
(*     (HH:mm:ss.sssZ, part "time") or without milliseconds (HH:mm:ssZ,    *)
(*     part "timeShort"); a year above 9999 is spelled with six digits,     *)
(*     +01YYYY: the part "era" (+01, ten thousand years) before the date;  *)
(*     instants are counted in ticks of ten minutes since the epoch.       *)
(***************************************************************************)
EXTENDS Integers, Sequences, FiniteSets, TLC

(***************************************************************************)
(* Bounds                                                                  *)
(***************************************************************************)
\* number of requests served in one behaviour
MaxRequests == 2

(***************************************************************************)
(* Numbers                                                                 *)
(***************************************************************************)
NaN == [nan |-> TRUE, num |-> 0, den |-> 1]

Num(n, d) == [nan |-> FALSE, num |-> n, den |-> d]

NumLess(a, b) == ~a.nan /\ ~b.nan /\ a.num * b.den < b.num * a.den

NumLeq(a, b) == ~a.nan /\ ~b.nan /\ a.num * b.den <= b.num * a.den

NumEq(a, b) == ~a.nan /\ ~b.nan /\ a.num * b.den = b.num * a.den

NumAdd(a, b) ==
  IF a.nan \/ b.nan THEN NaN
  ELSE IF a.den = b.den THEN Num(a.num + b.num, a.den)
  ELSE Num(a.num * b.den + b.num * a.den, a.den * b.den)

NumDiv(a, k) == IF a.nan \/ k = 0 THEN NaN ELSE Num(a.num, a.den * k)

(***************************************************************************)
(* Strings of characters                                                   *)
(***************************************************************************)
Digits == {"0", "1", "2", "3", "4", "5", "6", "7", "8", "9"}

DigitVal(c) ==
  CASE c = "0" -> 0 [] c = "1" -> 1 [] c = "2" -> 2 [] c = "3" -> 3
    [] c = "4" -> 4 [] c = "5" -> 5 [] c = "6" -> 6 [] c = "7" -> 7
    [] c = "8" -> 8 [] c = "9" -> 9

\* UTF-16 code unit of a character, the order String < String compares by
CharCode(c) ==
  IF c \in Digits THEN 48 + DigitVal(c)
  ELSE IF c = "." THEN 46 ELSE 120

RECURSIVE StrLess(_, _)
StrLess(a, b) ==
  IF b = <<>> THEN FALSE
  ELSE IF a = <<>> THEN TRUE
  ELSE IF Head(a) # Head(b) THEN CharCode(Head(a)) < CharCode(Head(b))
  ELSE StrLess(Tail(a), Tail(b))

RECURSIVE DigitRun(_)
\* length of the longest prefix of s made of decimal digits
DigitRun(s) ==
  IF s = <<>> \/ Head(s) \notin Digits THEN 0 ELSE 1 + DigitRun(Tail(s))

RECURSIVE DigitsToInt(_)
DigitsToInt(s) ==
  IF s = <<>> THEN 0
  ELSE 10 * DigitsToInt(SubSeq(s, 1, Len(s) - 1)) + DigitVal(s[Len(s)])

RECURSIVE Pow10(_)
Pow10(k) == IF k = 0 THEN 1 ELSE 10 * Pow10(k - 1)

\* the decimal literal at the start of s: [len, val], len = 0 when there is none
DecimalPrefix(s) ==
  LET i    == DigitRun(s)
      dot  == Len(s) > i /\ s[i + 1] = "."
      rest == IF dot THEN SubSeq(s, i + 2, Len(s)) ELSE <<>>
      f    == DigitRun(rest)
  IN  IF i = 0 /\ f = 0 THEN [len |-> 0, val |-> NaN]
      ELSE [len |-> i + (IF dot THEN 1 + f ELSE 0),
            val |-> Num(DigitsToInt(SubSeq(s, 1, i) \o SubSeq(rest, 1, f)), Pow10(f))]

\* parseFloat(string): the longest numeric prefix, NaN when there is none
parseFloatStr(s) == DecimalPrefix(s).val

\* Number(string): the whole string must be a numeric literal; "" is 0
StringToNumber(s) ==
  IF s = <<>> THEN Num(0, 1)
  ELSE IF DecimalPrefix(s).len = Len(s) THEN DecimalPrefix(s).val ELSE NaN

(***************************************************************************)
(* JavaScript values                                                       *)
(***************************************************************************)
Undefined == [t |-> "undefined", s |-> <<>>, n |-> NaN]

Str(s) == [t |-> "string", s |-> s, n |-> NaN]

Number(n) == [t |-> "number", s |-> <<>>, n |-> n]

\* a function object, such as the methods every object inherits
Function == [t |-> "function", s |-> <<>>, n |-> NaN]

ToNumber(v) ==
  IF v.t = "number" THEN v.n
  ELSE IF v.t = "string" THEN StringToNumber(v.s) ELSE NaN

\* parseFloat(v): ToString(v), then the numeric prefix
parseFloat(v) ==
  IF v.t = "number" THEN v.n
  ELSE IF v.t = "string" THEN parseFloatStr(v.s) ELSE NaN

\* isNaN(v)
isNaN(v) == ToNumber(v).nan

\* x < y: two strings compare by code units, anything else as numbers
JsLess(x, y) ==
  IF x.t = "string" /\ y.t = "string" THEN StrLess(x.s, y.s)
  ELSE NumLess(ToNumber(x), ToNumber(y))

\* x > y
JsGreater(x, y) == JsLess(y, x)

\* truthiness of a value in a condition
Truthy(v) ==
  IF v.t = "string" THEN v.s # <<>>
  ELSE IF v.t = "number" THEN ~v.n.nan /\ v.n.num # 0
  ELSE v.t = "function"

(***************************************************************************)
(* Timestamp strings                                                       *)
(***************************************************************************)
DatePart(d) == [k |-> "date", v |-> d]

TPart == [k |-> "T", v |-> 0]

TimePart(m) == [k |-> "time", v |-> m]

TimeShortPart(m) == [k |-> "timeShort", v |-> m]

JunkPart == [k |-> "junk", v |-> 0]

\* "+01", the first three characters of a six-digit year: e times 10000 years
EraPart(e) == [k |-> "era", v |-> e]

\* "YYYY-MM-DDTHH:mm:ss.sssZ" of day d, tick m of the day (ten minutes each)
IsoInstant(d, m) == <<DatePart(d), TPart, TimePart(m)>>

\* "YYYY-MM-DDTHH:mm:ssZ": the same instant spelled without milliseconds
ShortInstant(d, m) == <<DatePart(d), TPart, TimeShortPart(m)>>

\* "YYYY-MM-DD"
IsoDate(d) == <<DatePart(d)>>

\* "+01YYYY-MM-DDTHH:mm:ss.sssZ": the instant 10000 years after IsoInstant(d, m)
ExpandedInstant(d, m) == <<EraPart(1), DatePart(d), TPart, TimePart(m)>>

\* the time value of Date.parse(string) / new Date(string), NaN when invalid
DateParseStr(s) ==
  IF Len(s) = 1 /\ s[1].k = "date" THEN Num(s[1].v * 144, 1)
  ELSE IF Len(s) = 3 /\ s[1].k = "date" /\ s[2].k = "T"
          /\ s[3].k \in {"time", "timeShort"}
       THEN Num(s[1].v * 144 + s[3].v, 1)
  ELSE IF Len(s) = 4 /\ s[1].k = "era" /\ s[2].k = "date" /\ s[3].k = "T"
          /\ s[4].k \in {"time", "timeShort"}
       \* 10000 Gregorian years are 3652425 days
       THEN Num((s[1].v * 3652425 + s[2].v) * 144 + s[4].v, 1)
  ELSE NaN

\* new Date(v) for a JS value: undefined is invalid, a number is its time value
NewDate(v) ==
  IF v.t = "string" THEN DateParseStr(v.s)
  ELSE IF v.t = "number" THEN v.n ELSE NaN

\* Date.prototype.toISOString of a valid time value (whole ticks): four digits
\* for the years 0000 to 9999 (day -719528 is 0000-01-01), six from 10000 on
toISOString(date) ==
  LET day == date.num \div 144
      era == (day + 719528) \div 3652425
  IN  IF era = 0 THEN IsoInstant(day, date.num % 144)
      ELSE <<EraPart(era), DatePart(day - era * 3652425), TPart, TimePart(date.num % 144)>>

\* String.prototype.indexOf(sub) !== -1
Contains(str, sub) ==
  \E i \in 0..(Len(str) - Len(sub)) : SubSeq(str, i + 1, i + Len(sub)) = sub

\* isTime(timestampStr): timestampStr.indexOf('T') !== -1
isTime(timestampStr) == Contains(timestampStr, <<TPart>>)

(***************************************************************************)
(* The store: memory-cache, an object whose keys keep insertion order      *)
(***************************************************************************)
\* a measurement object: the timestamp property and the other properties
Measurement(ts, fields) == [timestamp |-> ts, fields |-> fields]

NoFields == [f \in {} |-> <<>>]

cacheHas(c, key) == \E i \in 1..Len(c) : c[i].key = key

cacheIndex(c, key) == CHOOSE i \in 1..Len(c) : c[i].key = key

\* cache.keys()
cacheKeys(c) == [i \in 1..Len(c) |-> c[i].key]

\* cache.get(key): the stored value, null when there is none
cacheGet(c, key) ==
  IF cacheHas(c, key) THEN [null |-> FALSE, value |-> c[cacheIndex(c, key)].value]
  ELSE [null |-> TRUE, value |-> Measurement(Undefined, NoFields)]

\* cache.put(key, value): an existing key keeps its place, a new one goes last
cachePut(c, key, value) ==
  IF cacheHas(c, key)
  THEN [c EXCEPT ![cacheIndex(c, key)] = [key |-> key, value |-> value]]
  ELSE Append(c, [key |-> key, value |-> value])

\* cache.del(key)
cacheDel(c, key) ==
  IF cacheHas(c, key)
  THEN SubSeq(c, 1, cacheIndex(c, key) - 1) \o SubSeq(c, cacheIndex(c, key) + 1, Len(c))
  ELSE c

saveMeasurementKeepingOld(c, timestamp, data) ==
  IF cacheHas(c, timestamp) THEN c ELSE cachePut(c, timestamp, data)

\* saveMeasurement(timestamp, data)
saveMeasurement(c, timestamp, data) == cachePut(c, timestamp, data)

\* Object.assign({}, oldRecord, newData); a null oldRecord contributes nothing
ObjectAssign(old, new) ==
  IF old.null THEN new
  ELSE Measurement(IF new.timestamp.t = "undefined" THEN old.value.timestamp
                   ELSE new.timestamp,
                   [f \in DOMAIN old.value.fields \cup DOMAIN new.fields |->
                      IF f \in DOMAIN new.fields THEN new.fields[f]
                      ELSE old.value.fields[f]])

updateMeasurementReplacing(c, timestamp, newData) == cachePut(c, timestamp, newData)

\* updateMeasurement(timestamp, newData)
updateMeasurement(c, timestamp, newData) ==
  cachePut(c, timestamp, ObjectAssign(cacheGet(c, timestamp), newData))

RECURSIVE SelectContaining(_, _)
\* the values of the keys that contain the date, in key order
SelectContaining(c, timestamp) ==
  IF c = <<>> THEN <<>>
  ELSE (IF Contains(Head(c).key, timestamp) THEN <<Head(c).value>> ELSE <<>>)
       \o SelectContaining(Tail(c), timestamp)

\* getMeasurements(timestamp): one measurement, a list of them, or null
getMeasurements(c, timestamp) ==
  IF isTime(timestamp)
  THEN IF cacheGet(c, timestamp).null THEN [kind |-> "null", items |-> <<>>]
       ELSE [kind |-> "one", items |-> <<cacheGet(c, timestamp).value>>]
  ELSE IF SelectContaining(c, timestamp) = <<>> THEN [kind |-> "null", items |-> <<>>]
       ELSE [kind |-> "list", items |-> SelectContaining(c, timestamp)]

(***************************************************************************)
(* Statistics (GET /stats)                                                 *)
(***************************************************************************)
\* the elements of a sequence
Range(seq) == {seq[i] : i \in 1..Len(seq)}

\* the property names an object literal ({}) inherits from Object.prototype
ObjectPrototype == {"constructor", "hasOwnProperty", "toString", "valueOf"}

\* data[metric]: the property of a stored measurement, its own or inherited,
\* undefined when absent
Property(data, metric) ==
  IF metric \in DOMAIN data.fields THEN Str(data.fields[metric])
  ELSE IF metric \in ObjectPrototype THEN Function
  ELSE Undefined

\* updateMinCalc(input, newValue)
updateMinCalc(input, newValue) ==
  IF input.t = "undefined" \/ JsLess(newValue, input)
  THEN newValue
  ELSE Number(parseFloat(input))

\* updateMaxCalc(input, newValue)
updateMaxCalc(input, newValue) ==
  IF input.t = "undefined" \/ JsGreater(newValue, input)
  THEN newValue
  ELSE Number(parseFloat(input))

RECURSIVE ReduceSum(_, _)
\* input.reduce((acc, val) => parseFloat(acc) + parseFloat(val)) from acc on
ReduceSum(acc, rest) ==
  IF rest = <<>> THEN acc
  ELSE ReduceSum(Number(NumAdd(parseFloat(acc), parseFloat(Head(rest)))), Tail(rest))

\* updateAvgCalc(input): input is a non-empty array of strings
updateAvgCalc(input) ==
  Number(NumDiv(ToNumber(ReduceSum(Head(input), Tail(input))), Len(input)))

\* isWithinTimeRange(input, query), query holding the parsed bounds
isWithinTimeRange(input, query) ==
  LET timestamp == DateParseStr(input)
      from      == query.fromDateTime
      to        == query.toDateTime
  IN  IF Truthy(from) /\ Truthy(to)
      THEN NumLeq(ToNumber(from), timestamp) /\ NumLess(timestamp, ToNumber(to))
      ELSE IF Truthy(from) /\ NumLeq(ToNumber(from), timestamp) THEN TRUE
      ELSE IF Truthy(to) /\ NumLess(timestamp, ToNumber(to)) THEN TRUE
      ELSE FALSE

\* expandParam(query, key): an absent parameter expands to [undefined]
expandParam(param) == IF param = <<>> THEN <<"undefined">> ELSE param

\* buildMetricsParam(query)
buildMetricsParam(query) == expandParam(query.metric)

allowedStats == {"min", "max", "average"}

\* buildStatsParam(query): the allowed statistics that were asked for
buildStatsParam(query) ==
  {expandParam(query.stat)[i] : i \in 1..Len(expandParam(query.stat))} \cap allowedStats

\* the query after calculateStats has replaced the supplied bounds by Date.parse
ParsedBounds(query) ==
  [query EXCEPT
     !.fromDateTime = IF Truthy(@) THEN Number(DateParseStr(@.s)) ELSE @,
     !.toDateTime   = IF Truthy(@) THEN Number(DateParseStr(@.s)) ELSE @]

areDatesRestricted(query) == Truthy(query.fromDateTime) \/ Truthy(query.toDateTime)

\* the record is not skipped by the scan
Scanned(key, query) ==
  ~(areDatesRestricted(query) /\ ~isWithinTimeRange(key, ParsedBounds(query)))

\* the state of the scan: accumulatedDataPoints and runningStats (has[m]: they
\* hold an entry of their own for m), and whether the scan threw
NoStats(metrics) ==
  [acc   |-> [m \in metrics |-> <<>>],
   has   |-> [m \in metrics |-> FALSE],
   min   |-> [m \in metrics |-> Undefined],
   max   |-> [m \in metrics |-> Undefined],
   threw |-> FALSE]

\* the body of metrics.forEach for one metric of one record; while
\* accumulatedDataPoints ({}) has no entry of its own for the metric,
\* accumulatedDataPoints[metric] is undefined, or the function it inherits under
\* that name, which is truthy and has no push: a TypeError
ScanMetric(st, data, metric, stats) ==
  IF st.threw \/ Property(data, metric).t = "undefined" THEN st
  ELSE IF ~st.has[metric] /\ metric \in ObjectPrototype THEN [st EXCEPT !.threw = TRUE]
  ELSE [threw |-> FALSE,
        acc |-> [st.acc EXCEPT ![metric] = Append(@, Property(data, metric))],
        has |-> [st.has EXCEPT ![metric] = TRUE],
        min |-> IF "min" \in stats
                THEN [st.min EXCEPT ![metric] = updateMinCalc(@, Property(data, metric))]
                ELSE st.min,
        max |-> IF "max" \in stats
                THEN [st.max EXCEPT ![metric] = updateMaxCalc(@, Property(data, metric))]
                ELSE st.max]

RECURSIVE ScanMetrics(_, _, _, _)
ScanMetrics(st, data, metrics, stats) ==
  IF metrics = <<>> THEN st
  ELSE ScanMetrics(ScanMetric(st, data, Head(metrics), stats), data, Tail(metrics), stats)

RECURSIVE ScanRecords(_, _, _, _, _)
\* for (let timestamp of timestamps) { ... }
ScanRecords(st, c, query, metrics, stats) ==
  IF c = <<>> THEN st
  ELSE ScanRecords(IF Scanned(Head(c).key, query)
                   THEN ScanMetrics(st, Head(c).value, metrics, stats)
                   ELSE st,
                   Tail(c), query, metrics, stats)

Tuple(metric, stat, value) == [metric |-> metric, stat |-> stat, value |-> value]

RECURSIVE EmitStats(_, _, _)
\* the second metrics.forEach: min, max, average of each metric that has data
EmitStats(st, metrics, stats) ==
  IF metrics = <<>> THEN <<>>
  ELSE LET m == Head(metrics)
       IN  (IF "min" \in stats /\ st.has[m] THEN <<Tuple(m, "min", st.min[m])>> ELSE <<>>)
           \o (IF "max" \in stats /\ st.has[m] THEN <<Tuple(m, "max", st.max[m])>> ELSE <<>>)
           \o (IF "average" \in stats /\ st.has[m] /\ Len(st.acc[m]) > 0
               THEN <<Tuple(m, "average", updateAvgCalc(st.acc[m]))>> ELSE <<>>)
           \o EmitStats(st, Tail(metrics), stats)

\* calculateStats(query) over the cache c: the output array, or an exception
calculateStats(c, query) ==
  LET metrics == buildMetricsParam(query)
      stats   == buildStatsParam(query)
      names   == {metrics[i] : i \in 1..Len(metrics)}
      st      == ScanRecords(NoStats(names), c, query, metrics, stats)
  IN  IF st.threw THEN [threw |-> TRUE, output |-> <<>>]
      ELSE [threw |-> FALSE, output |-> EmitStats(st, metrics, stats)]

(***************************************************************************)
(* Requests and responses                                                  *)
(***************************************************************************)
NoPayload == [kind |-> "none", items |-> <<>>]

\* a response nothing has been written to
NewRes == [sent |-> <<>>, calls |-> 0, payload |-> NoPayload]

\* res.status(status).send(payload): throws once the headers have been sent
Send(res, status, payload) ==
  IF res.sent # <<>>
  THEN [res |-> [res EXCEPT !.calls = @ + 1], threw |-> TRUE]
  ELSE [res |-> [sent |-> <<status>>, calls |-> res.calls + 1, payload |-> payload],
        threw |-> FALSE]

\* res.status(status).end(payload): a second end writes nothing and does not throw
End(res, status, payload) ==
  IF res.sent # <<>>
  THEN [res EXCEPT !.calls = @ + 1]
  ELSE [sent |-> <<status>>, calls |-> res.calls + 1, payload |-> payload]

\* reportError(res, errorMessage)
reportError(res) == Send(res, 400, NoPayload)

\* Object.keys(req.body).length
BodyKeyCount(body) ==
  (IF body.timestamp.t = "undefined" THEN 0 ELSE 1) + Cardinality(DOMAIN body.fields)

\* req.params.timestamp || (Object.keys(req.body).length && req.body.timestamp)
RequestTimestamp(req) ==
  IF Truthy(req.params) THEN req.params
  ELSE IF BodyKeyCount(req.body) = 0 THEN Number(Num(0, 1))
  ELSE req.body.timestamp

\* date.toISOString().substring(0, 10): the date is the first ten characters
\* (of a four-digit year, the only ones a bare date is given with)
Substring10(iso) == SubSeq(iso, 1, 1)

validateTimestampFallingThrough(req, res) ==
  LET timestamp == RequestTimestamp(req)
      date      == NewDate(timestamp)
      bad       == ~Truthy(timestamp) \/ date.nan
  IN  [res       |-> IF bad THEN reportError(res).res ELSE res,
       threw     |-> FALSE,
       next      |-> TRUE,
       formatted |-> IF date.nan \/ timestamp.t # "string" THEN <<>>
                     ELSE IF isTime(timestamp.s) THEN toISOString(date)
                     ELSE Substring10(toISOString(date))]

\* validateTimestamp(req, res, next): the response, whether an exception left
\* the function, whether next() was called, and req.formattedTimestamp
validateTimestamp(req, res) ==
  LET timestamp == RequestTimestamp(req)
      \* if (!timestamp) reportError(...)
      r1   == IF ~Truthy(timestamp) THEN reportError(res)
              ELSE [res |-> res, threw |-> FALSE]
      date == NewDate(timestamp)
      \* if (isNaN(date)) reportError(...)
      r2   == IF r1.threw THEN r1
              ELSE IF date.nan THEN reportError(r1.res)
              ELSE r1
      \* isTime(timestamp) is a TypeError unless timestamp is a string;
      \* toISOString() of an invalid date is a RangeError
      r3   == IF r2.threw THEN r2
              ELSE IF timestamp.t # "string" \/ date.nan
              THEN [res |-> r2.res, threw |-> TRUE]
              ELSE r2
  IN  [res       |-> r3.res,
       threw     |-> r3.threw,
       next      |-> ~r3.threw,
       formatted |-> IF r3.threw THEN <<>>
                     ELSE IF isTime(timestamp.s) THEN toISOString(date)
                     ELSE Substring10(toISOString(date))]

\* validateNumericalData(req, res, next)
validateNumericalData(req, res) ==
  LET validationFailed ==
        \E field \in DOMAIN req.body.fields : isNaN(Str(req.body.fields[field]))
  IN  IF validationFailed
      THEN [res |-> reportError(res).res, threw |-> reportError(res).threw, next |-> FALSE]
      ELSE [res |-> res, threw |-> FALSE, next |-> TRUE]

\* validateMatchingTimestamps(req, res, next)
validateMatchingTimestamps(req, res) ==
  IF req.params # req.body.timestamp
  THEN [res |-> End(res, 409, NoPayload), threw |-> FALSE, next |-> FALSE]
  ELSE [res |-> res, threw |-> FALSE, next |-> TRUE]

\* validateHasExistingData(req, res, next)
validateHasExistingData(c, formattedTimestamp, res) ==
  IF getMeasurements(c, formattedTimestamp).kind # "null"
  THEN [res |-> res, threw |-> FALSE, next |-> TRUE]
  ELSE [res |-> End(res, 404, NoPayload), threw |-> FALSE, next |-> FALSE]

\* the validators and the handler of each route, in the order they are registered
Chain(method) ==
  CASE method = "POST"   -> <<"validateTimestamp", "validateNumericalData", "handler">>
    [] method = "GET"    -> <<"validateTimestamp", "handler">>
    [] method = "PUT"    -> <<"validateTimestamp", "validateNumericalData",
                              "validateMatchingTimestamps", "validateHasExistingData",
                              "handler">>
    [] method = "PATCH"  -> <<"validateTimestamp", "validateNumericalData",
                              "validateMatchingTimestamps", "validateHasExistingData",
                              "handler">>
    [] method = "DELETE" -> <<"validateTimestamp", "validateHasExistingData", "handler">>

\* the step next() passes control to
NextStage(method, stage) ==
  LET i == CHOOSE j \in 1..Len(Chain(method)) : Chain(method)[j] = stage
  IN  Chain(method)[i + 1]

\* where a middleware leaves the request: the error middleware on an exception,
\* the next step when it called next(), nowhere otherwise
After(method, stage, out) ==
  IF out.threw THEN "error"
  ELSE IF out.next THEN NextStage(method, stage)
  ELSE "done"

(***************************************************************************)
(* Inputs                                                                  *)
(***************************************************************************)
\* 2015-09-01, the day of the seeded measurements, in days since 1970-01-01
SeedDay == 16679

Chars27_1 == <<"2", "7", ".", "1">>

\* the timestamp identifiers requests are made with
Identifiers ==
  { IsoInstant(SeedDay, 96),       \* 2015-09-01T16:00:00.000Z, seeded
    ShortInstant(SeedDay, 96),     \* 2015-09-01T16:00:00Z, the same instant
    ExpandedInstant(SeedDay, 96),  \* +012015-09-01T16:00:00.000Z, the year 12015
    IsoInstant(0, 0),              \* 1970-01-01T00:00:00.000Z
    IsoDate(SeedDay),              \* 2015-09-01
    IsoDate(0),                    \* 1970-01-01
    <<JunkPart>> }                 \* not a date

\* req.params.timestamp: a non-empty path segment, or none (POST)
PathTimestamps == {Str(id) : id \in Identifiers}

\* req.body.timestamp: any identifier, the empty string, or none
BodyTimestamps == {Str(id) : id \in Identifiers} \cup {Str(<<>>), Undefined}

\* the other properties of a request body: no field, or a temperature of
\* "9", "" or "x"
BodyFields ==
  {NoFields} \cup {[f \in {"temperature"} |-> v] : v \in {<<"9">>, <<>>, <<"x">>}}

Bodies == {Measurement(ts, fs) : ts \in BodyTimestamps, fs \in BodyFields}

\* the bounds of a stats query: none, the epoch, or a seeded instant
Bounds ==
  {Undefined, Str(IsoInstant(0, 0)), Str(IsoInstant(SeedDay, 98)),
   Str(IsoInstant(SeedDay, 102))}

Queries ==
  [metric : {<<"temperature">>, <<"dewPoint">>, <<"temperature", "dewPoint">>,
             <<"precipitation">>, <<"toString">>},
   stat : {<<"min">>, <<"max">>, <<"min", "max", "average">>, <<"median">>},
   fromDateTime : Bounds,
   toDateTime : Bounds]

NoQuery == [metric |-> <<>>, stat |-> <<>>, fromDateTime |-> Undefined,
            toDateTime |-> Undefined]

(***************************************************************************)
(* State                                                                   *)
(***************************************************************************)
VARIABLES
  store,               \* the cache: <<[key, value], ...>> in insertion order
  req,                 \* the request being served
  formattedTimestamp,  \* req.formattedTimestamp
  res,                 \* its response
  pc,                  \* the step of the route that runs next
  ran,                 \* the steps that have run for this request
  storeBefore,         \* the store when the request arrived
  nreq,                \* the number of requests received
  scan                 \* the local variables of calculateStats while it runs

vars == <<store, req, formattedTimestamp, res, pc, ran, storeBefore, nreq, scan>>

Seed(tick, temperature, dewPoint) ==
  [key   |-> IsoInstant(SeedDay, tick),
   value |-> Measurement(Str(IsoInstant(SeedDay, tick)),
                         IF dewPoint = <<>>
                         THEN [f \in {"temperature"} |-> temperature]
                         ELSE [f \in {"temperature", "dewPoint"} |->
                                 IF f = "temperature" THEN temperature ELSE dewPoint])]

\* the six measurements put in the cache when the server starts listening
SeededStore ==
  << Seed(96,   Chars27_1,               <<"1", "6", ".", "9">>),
     Seed(97,   <<"2", "7", ".", "3">>,  <<>>),
     Seed(98,   <<"2", "7", ".", "5">>,  <<"1", "7", ".", "1">>),
     Seed(99,   <<"2", "7", ".", "4">>,  <<"1", "7", ".", "3">>),
     Seed(100,  <<"2", "7", ".", "2">>,  <<>>),
     Seed(102,  <<"2", "8", ".", "1">>,  <<"1", "8", ".", "3">>) >>

NoRequest ==
  [method |-> "NONE", params |-> Undefined,
   body |-> Measurement(Undefined, NoFields), query |-> NoQuery]

\* calculateStats is not running
NoScan == [timestamps |-> <<>>, index |-> 1, st |-> NoStats({})]

Init ==
  /\ store = SeededStore
  /\ req = NoRequest
  /\ formattedTimestamp = <<>>
  /\ res = NewRes
  /\ pc = "idle"
  /\ ran = <<>>
  /\ storeBefore = SeededStore
  /\ nreq = 0
  /\ scan = NoScan

(***************************************************************************)
(* Actions                                                                 *)
(***************************************************************************)
\* a request for /measurements arrives and is routed to its chain
Receive(method, params, body) ==
  /\ pc = "idle"
  /\ nreq < MaxRequests
  /\ req' = [method |-> method, params |-> params, body |-> body, query |-> NoQuery]
  /\ formattedTimestamp' = <<>>
  /\ res' = NewRes
  /\ pc' = Head(Chain(method))
  /\ ran' = <<>>
  /\ storeBefore' = store
  /\ nreq' = nreq + 1
  /\ UNCHANGED <<store, scan>>

ReceivePost == \E body \in Bodies : Receive("POST", Undefined, body)

ReceiveGet == \E id \in PathTimestamps : Receive("GET", id, Measurement(Undefined, NoFields))

ReceivePut == \E id \in PathTimestamps, body \in Bodies : Receive("PUT", id, body)

ReceivePatch == \E id \in PathTimestamps, body \in Bodies : Receive("PATCH", id, body)

ReceiveDelete ==
  \E id \in PathTimestamps : Receive("DELETE", id, Measurement(Undefined, NoFields))

\* a middleware ran: its response, and where the request goes next
Leave(stage, out) ==
  /\ res' = out.res
  /\ pc' = After(req.method, stage, out)
  /\ ran' = Append(ran, stage)
  /\ UNCHANGED <<req, storeBefore, nreq, scan>>

ValidateTimestamp ==
  /\ pc = "validateTimestamp"
  /\ formattedTimestamp' = validateTimestamp(req, res).formatted
  /\ Leave("validateTimestamp", validateTimestamp(req, res))
  /\ UNCHANGED store

ValidateNumericalData ==
  /\ pc = "validateNumericalData"
  /\ Leave("validateNumericalData", validateNumericalData(req, res))
  /\ UNCHANGED <<store, formattedTimestamp>>

ValidateMatchingTimestamps ==
  /\ pc = "validateMatchingTimestamps"
  /\ Leave("validateMatchingTimestamps", validateMatchingTimestamps(req, res))
  /\ UNCHANGED <<store, formattedTimestamp>>

ValidateHasExistingData ==
  /\ pc = "validateHasExistingData"
  /\ Leave("validateHasExistingData",
           validateHasExistingData(store, formattedTimestamp, res))
  /\ UNCHANGED <<store, formattedTimestamp>>

\* a route handler ran: it ends the response
Handled(newStore, newRes) ==
  /\ store' = newStore
  /\ res' = newRes
  /\ pc' = "done"
  /\ ran' = Append(ran, "handler")
  /\ UNCHANGED <<req, formattedTimestamp, storeBefore, nreq, scan>>

\* router.post('/')
PostHandler ==
  /\ pc = "handler" /\ req.method = "POST"
  /\ Handled(saveMeasurement(store, formattedTimestamp, req.body),
             End(res, 201, NoPayload))

\* the response of router.get('/:timestamp') for a formatted timestamp
getResponse(c, timestamp, r) ==
  IF getMeasurements(c, timestamp).kind # "null"
  THEN Send(r, 200, getMeasurements(c, timestamp)).res
  ELSE End(r, 404, NoPayload)

\* router.get('/:timestamp')
GetHandler ==
  /\ pc = "handler" /\ req.method = "GET"
  /\ Handled(store, getResponse(store, formattedTimestamp, res))

\* router.put('/:timestamp')
PutHandler ==
  /\ pc = "handler" /\ req.method = "PUT"
  /\ Handled(saveMeasurement(store, formattedTimestamp, req.body),
             End(res, 204, NoPayload))

\* router.patch('/:timestamp')
PatchHandler ==
  /\ pc = "handler" /\ req.method = "PATCH"
  /\ Handled(updateMeasurement(store, formattedTimestamp, req.body),
             End(res, 204, NoPayload))

\* router.delete('/:timestamp')
DeleteHandler ==
  /\ pc = "handler" /\ req.method = "DELETE"
  /\ Handled(cacheDel(store, formattedTimestamp), End(res, 204, NoPayload))

\* the error middleware of the application, reached by an exception:
\* res.status(500).send('Something broke!')
ErrorHandler ==
  /\ pc = "error"
  /\ res' = Send(res, 500, NoPayload).res
  /\ pc' = "done"
  /\ ran' = Append(ran, "error")
  /\ UNCHANGED <<store, req, formattedTimestamp, storeBefore, nreq, scan>>

\* GET /stats: res.send(calculateStats(req.query))
Stats ==
  \E query \in Queries :
    /\ pc = "idle"
    /\ nreq < MaxRequests
    /\ req' = [method |-> "STATS", params |-> Undefined,
               body |-> Measurement(Undefined, NoFields), query |-> query]
    /\ formattedTimestamp' = <<>>
    /\ IF calculateStats(store, query).threw
       THEN res' = NewRes /\ pc' = "error"
       ELSE /\ res' = Send(NewRes, 200, [kind |-> "stats",
                                         items |-> calculateStats(store, query).output]).res
            /\ pc' = "done"
    /\ ran' = <<"stats">>
    /\ storeBefore' = store
    /\ nreq' = nreq + 1
    /\ UNCHANGED <<store, scan>>

\* the request is over: the server waits for the next one
Complete ==
  /\ pc = "done"
  /\ pc' = "idle"
  /\ req' = NoRequest
  /\ formattedTimestamp' = <<>>
  /\ res' = NewRes
  /\ ran' = <<>>
  /\ storeBefore' = store
  /\ UNCHANGED <<store, nreq, scan>>

Next ==
  \/ ReceivePost
  \/ ReceiveGet
  \/ ReceivePut
  \/ ReceivePatch
  \/ ReceiveDelete
  \/ ValidateTimestamp
  \/ ValidateNumericalData
  \/ ValidateMatchingTimestamps
  \/ ValidateHasExistingData
  \/ PostHandler
  \/ GetHandler
  \/ PutHandler
  \/ PatchHandler
  \/ DeleteHandler
  \/ ErrorHandler
  \/ Stats
  \/ Complete

Spec == Init /\ [][Next]_vars

(***************************************************************************)
(* Several requests in flight                                              *)
(*                                                                         *)
(* Node runs one callback at a time: a request's middleware run one after  *)
(* the other in the same turn of the event loop for as long as each calls  *)
(* next() before it returns. In this specification req, formattedTimestamp,*)
(* res, pc, ran, storeBefore and scan are functions of the request's       *)
(* number, pc[i] tells the stage of request i that runs next and whether   *)
(* the request waits for a turn of the event loop, and storeBefore[i] is   *)
(* the store as the existence check, or the start of the scan, of request  *)
(* i saw it.                                                               *)
(***************************************************************************)
Ids == 1..MaxRequests

\* a variant in which the request is also suspended after its existence check
SuspendsAfterExistenceCheck(stage) ==
  stage \in {"bodyParser", "validateHasExistingData"}

\* the middleware that calls next() from a later turn of the event loop:
\* bodyParser.json() reads the body of the request first (upload.array()
\* passes a JSON request on at once); every validator and handler of the
\* routers calls next(), or answers, before it returns
Suspends(stage) == stage = "bodyParser"

\* the requests that are sent concurrently
ConcurrentRequests ==
  LET instant == Str(IsoInstant(SeedDay, 96))
      body    == Measurement(instant, [f \in {"temperature"} |-> <<"9">>])
      none    == Measurement(Undefined, NoFields)
  IN  { [method |-> "POST",   params |-> Undefined, body |-> body, query |-> NoQuery],
        [method |-> "PUT",    params |-> instant,   body |-> body, query |-> NoQuery],
        [method |-> "PATCH",  params |-> instant,   body |-> body, query |-> NoQuery],
        [method |-> "DELETE", params |-> instant,   body |-> none, query |-> NoQuery],
        [method |-> "DELETE", params |-> Str(<<JunkPart>>), body |-> none,
         query |-> NoQuery],
        [method |-> "STATS",  params |-> Undefined, body |-> none,
         query |-> [metric |-> <<"temperature">>, stat |-> <<"min", "max", "average">>,
                    fromDateTime |-> Undefined, toDateTime |-> Undefined]] }

InitConcurrent ==
  /\ store = SeededStore
  /\ req = [i \in Ids |-> NoRequest]
  /\ formattedTimestamp = [i \in Ids |-> <<>>]
  /\ res = [i \in Ids |-> NewRes]
  /\ pc = [i \in Ids |-> [stage |-> "idle", waiting |-> FALSE]]
  /\ ran = [i \in Ids |-> <<>>]
  /\ storeBefore = [i \in Ids |-> SeededStore]
  /\ nreq = 0
  /\ scan = [i \in Ids |-> NoScan]

\* a callback of request j is running
Executing(j) == ~pc[j].waiting /\ pc[j].stage \notin {"idle", "done"}

\* no callback is running: the event loop takes the next event
LoopIdle == \A j \in Ids : ~Executing(j)

\* request i is at the stage and running
At(i, stage) == pc[i].stage = stage /\ ~pc[i].waiting

\* the stage of request i has run: the request goes on to nextStage, in the
\* same turn unless the stage suspends
Move(i, stage, nextStage) ==
  /\ pc' = [pc EXCEPT ![i] = [stage |-> nextStage, waiting |-> Suspends(stage)]]
  /\ ran' = [ran EXCEPT ![i] = Append(@, stage)]

\* the next request arrives and goes through bodyParser.json() to its route
Arrive(i) ==
  \E request \in ConcurrentRequests :
    /\ i = nreq + 1
    /\ LoopIdle
    /\ req' = [req EXCEPT ![i] = request]
    /\ nreq' = nreq + 1
    /\ Move(i, "bodyParser",
            IF request.method = "STATS" THEN "calculateStats"
            ELSE Head(Chain(request.method)))
    /\ UNCHANGED <<store, formattedTimestamp, res, storeBefore, scan>>

\* the event loop runs the continuation of a suspended request
Resume(i) ==
  /\ pc[i].waiting
  /\ pc[i].stage \notin {"idle", "done"}
  /\ LoopIdle
  /\ pc' = [pc EXCEPT ![i].waiting = FALSE]
  /\ UNCHANGED <<store, req, formattedTimestamp, res, ran, storeBefore, nreq, scan>>

\* a validator of request i ran
Validated(i, stage, out) ==
  /\ res' = [res EXCEPT ![i] = out.res]
  /\ Move(i, stage, After(req[i].method, stage, out))
  /\ UNCHANGED <<store, req, nreq, scan>>

RunValidateTimestamp(i) ==
  /\ At(i, "validateTimestamp")
  /\ formattedTimestamp' =
       [formattedTimestamp EXCEPT ![i] = validateTimestamp(req[i], res[i]).formatted]
  /\ Validated(i, "validateTimestamp", validateTimestamp(req[i], res[i]))
  /\ UNCHANGED storeBefore

RunValidateNumericalData(i) ==
  /\ At(i, "validateNumericalData")
  /\ Validated(i, "validateNumericalData", validateNumericalData(req[i], res[i]))
  /\ UNCHANGED <<formattedTimestamp, storeBefore>>

RunValidateMatchingTimestamps(i) ==
  /\ At(i, "validateMatchingTimestamps")
  /\ Validated(i, "validateMatchingTimestamps", validateMatchingTimestamps(req[i], res[i]))
  /\ UNCHANGED <<formattedTimestamp, storeBefore>>

RunValidateHasExistingData(i) ==
  /\ At(i, "validateHasExistingData")
  /\ Validated(i, "validateHasExistingData",
               validateHasExistingData(store, formattedTimestamp[i], res[i]))
  /\ storeBefore' = [storeBefore EXCEPT ![i] = store]
  /\ UNCHANGED formattedTimestamp

\* the handler of the route of request i: router.post, router.put,
\* router.patch or router.delete
RunHandler(i) ==
  /\ At(i, "handler")
  /\ store' = CASE req[i].method = "POST" ->
                     saveMeasurement(store, formattedTimestamp[i], req[i].body)
                [] req[i].method = "PUT" ->
                     saveMeasurement(store, formattedTimestamp[i], req[i].body)
                [] req[i].method = "PATCH" ->
                     updateMeasurement(store, formattedTimestamp[i], req[i].body)
                [] req[i].method = "DELETE" ->
                     cacheDel(store, formattedTimestamp[i])
  /\ res' = [res EXCEPT ![i] = End(@, IF req[i].method = "POST" THEN 201 ELSE 204,
                                   NoPayload)]
  /\ Move(i, "handler", "done")
  /\ UNCHANGED <<req, formattedTimestamp, storeBefore, nreq, scan>>

\* the error middleware answers request i
RunErrorHandler(i) ==
  /\ At(i, "error")
  /\ res' = [res EXCEPT ![i] = Send(@, 500, NoPayload).res]
  /\ Move(i, "error", "done")
  /\ UNCHANGED <<store, req, formattedTimestamp, storeBefore, nreq, scan>>

\* calculateStats up to its loop: const timestamps = cache.keys()
StartScan(i) ==
  /\ At(i, "calculateStats")
  /\ scan' = [scan EXCEPT ![i] =
                [timestamps |-> cacheKeys(store), index |-> 1,
                 st |-> NoStats(Range(buildMetricsParam(req[i].query)))]]
  /\ storeBefore' = [storeBefore EXCEPT ![i] = store]
  /\ Move(i, "calculateStats", "scan")
  /\ UNCHANGED <<store, req, formattedTimestamp, res, nreq>>

\* one turn of the loop of calculateStats: cache.get(timestamp), the time
\* filter, metrics.forEach; data[metric] of a record that is gone is a TypeError
ScanRecord(i) ==
  /\ At(i, "scan")
  /\ scan[i].index <= Len(scan[i].timestamps)
  /\ LET timestamp == scan[i].timestamps[scan[i].index]
         data      == cacheGet(store, timestamp)
     IN  scan' = [scan EXCEPT
                    ![i].index = @ + 1,
                    ![i].st = IF ~Scanned(timestamp, req[i].query) THEN @
                              ELSE IF data.null THEN [@ EXCEPT !.threw = TRUE]
                              ELSE ScanMetrics(@, data.value,
                                               buildMetricsParam(req[i].query),
                                               buildStatsParam(req[i].query))]
  /\ pc' = [pc EXCEPT ![i].waiting = Suspends("scan")]
  /\ UNCHANGED <<store, req, formattedTimestamp, res, ran, storeBefore, nreq>>

\* the loop is over: the output array is built and sent, or the exception of
\* the loop reaches the error middleware
SendStats(i) ==
  /\ At(i, "scan")
  /\ scan[i].index > Len(scan[i].timestamps)
  /\ IF scan[i].st.threw
     THEN Move(i, "scan", "error") /\ UNCHANGED res
     ELSE /\ res' = [res EXCEPT ![i] =
                       Send(@, 200,
                            [kind |-> "stats",
                             items |-> EmitStats(scan[i].st,
                                                 buildMetricsParam(req[i].query),
                                                 buildStatsParam(req[i].query))]).res]
          /\ Move(i, "scan", "done")
  /\ UNCHANGED <<store, req, formattedTimestamp, storeBefore, nreq, scan>>

NextConcurrent ==
  \/ \E i \in Ids : Arrive(i)
  \/ \E i \in Ids : Resume(i)
  \/ \E i \in Ids : RunValidateTimestamp(i)
  \/ \E i \in Ids : RunValidateNumericalData(i)
  \/ \E i \in Ids : RunValidateMatchingTimestamps(i)
  \/ \E i \in Ids : RunValidateHasExistingData(i)
  \/ \E i \in Ids : RunHandler(i)
  \/ \E i \in Ids : RunErrorHandler(i)
  \/ \E i \in Ids : StartScan(i)
  \/ \E i \in Ids : ScanRecord(i)
  \/ \E i \in Ids : SendStats(i)

SpecConcurrent == InitConcurrent /\ [][NextConcurrent]_vars

(***************************************************************************)
(* Properties                                                              *)
(***************************************************************************)
MeasurementMethods == {"POST", "GET", "PUT", "PATCH", "DELETE"}

Ran(stage) == \E i \in 1..Len(ran) : ran[i] = stage

LastRan == IF ran = <<>> THEN "none" ELSE ran[Len(ran)]

KeySet(c) == {c[i].key : i \in 1..Len(c)}

StatsDone == pc = "done" /\ req.method = "STATS"

\* the numeric values of a metric over the records the scan does not skip
Observed(c, query, metric) ==
  {parseFloatStr(c[i].value.fields[metric]) :
     i \in {k \in 1..Len(c) : /\ Scanned(c[k].key, query)
                              /\ metric \in DOMAIN c[k].value.fields}}

IsMinimum(v, S) == (\E x \in S : NumEq(v, x)) /\ (\A x \in S : NumLeq(v, x))

IsMaximum(v, S) == (\E x \in S : NumEq(v, x)) /\ (\A x \in S : NumLeq(x, v))

\* C1: the value of every emitted (metric, 'min') tuple is the numeric minimum,
\* and that of every (metric, 'max') tuple the numeric maximum, of the metric's
\* values over the records that pass the time filter, all of them numbers.
C1_MinMaxAreNumeric ==
  StatsDone =>
    \A i \in 1..Len(res.payload.items) :
      LET tuple == res.payload.items[i]
          S     == Observed(store, req.query, tuple.metric)
      IN  (\A x \in S : ~x.nan) =>
            /\ tuple.stat = "min" => IsMinimum(ToNumber(tuple.value), S)
            /\ tuple.stat = "max" => IsMaximum(ToNumber(tuple.value), S)

\* the instant of a supplied bound, in ticks since the epoch
BoundInstant(bound) == DateParseStr(bound.s)

\* t is in the range the query asks for: [fromDateTime, toDateTime), a bound
\* that is not supplied being no restriction
InRequestedRange(t, query) ==
  /\ query.fromDateTime.t = "undefined" \/ NumLeq(BoundInstant(query.fromDateTime), t)
  /\ query.toDateTime.t = "undefined" \/ NumLess(t, BoundInstant(query.toDateTime))

\* C2: a record contributes to the aggregation if and only if its instant is
\* in [fromDateTime, toDateTime), for every supplied bound, the epoch included.
C2_HalfOpenRange ==
  StatsDone =>
    \A i \in 1..Len(store) :
      Scanned(store[i].key, req.query)
        <=> InRequestedRange(DateParseStr(store[i].key), req.query)

\* the timestamp identifier of the request is missing, empty or no date/time
InvalidTimestamp ==
  /\ req.method \in MeasurementMethods
  /\ \/ RequestTimestamp(req).t # "string"
     \/ RequestTimestamp(req).s = <<>>
     \/ DateParseStr(RequestTimestamp(req).s).nan

\* C3: a request whose timestamp identifier is missing, empty or unparseable is
\* answered 400 and aborted: no later validator or handler runs, and the store
\* is unchanged.
C3_InvalidTimestampAborts ==
  (InvalidTimestamp /\ ran # <<>>) =>
    /\ res.sent = <<400>>
    /\ store = storeBefore
    /\ \A i \in 1..Len(ran) : ran[i] \in {"validateTimestamp", "error"}
    /\ pc \in {"error", "done"}

\* C3 witness: a PUT with an unparseable path identifier and a numeric field
\* has been answered and is over.
C3_Witness ==
  /\ InvalidTimestamp /\ pc = "done" /\ req.method = "PUT"
  /\ req.body.fields # NoFields
  /\ res.sent = <<400>>

\* C3 witness: a POST without timestamp has been answered 400 and is over.
C3_WitnessMissing ==
  /\ InvalidTimestamp /\ pc = "done" /\ req.method = "POST"
  /\ req.body.timestamp.t = "undefined"
  /\ res.sent = <<400>>

ErrorWritten == res.sent # <<>> /\ res.sent[1] >= 400

\* C4: every request is answered exactly once: the code writes a response at
\* most once, and once an error response has been written no further step of
\* the request runs (the step that wrote it is the last one).
C4_AnsweredOnce ==
  /\ res.calls <= 1
  /\ ErrorWritten => ~Ran("error")

\* C5: the set of stored keys is the same after any PUT or PATCH request as
\* before it; one addressed to an identifier with no record is answered 404.
C5_ReplaceCreatesNoRecord ==
  (pc = "done" /\ req.method \in {"PUT", "PATCH"}) =>
    /\ KeySet(store) = KeySet(storeBefore)
    /\ (~InvalidTimestamp /\ Ran("validateHasExistingData")
        /\ getMeasurements(storeBefore, formattedTimestamp).kind = "null")
         => res.sent = <<404>>

\* the key an identifier stands for, <<>> when it stands for none
NormalizedKey(v) ==
  IF v.t # "string" \/ DateParseStr(v.s).nan THEN <<>>
  ELSE IF isTime(v.s) THEN toISOString(DateParseStr(v.s))
  ELSE Substring10(toISOString(DateParseStr(v.s)))

\* C6: a PUT or PATCH is rejected 409 exactly when the path identifier and the
\* body's timestamp identify different timestamps; identifiers that normalize
\* to the same key are no mismatch; on a mismatch the store is unchanged.
C6_MismatchIffDifferentKeys ==
  (req.method \in {"PUT", "PATCH"} /\ Ran("validateMatchingTimestamps")) =>
    /\ (res.sent = <<409>>) <=> (NormalizedKey(req.params) # NormalizedKey(req.body.timestamp))
    /\ res.sent = <<409>> => store = storeBefore

\* C7: every field other than 'timestamp' of every stored record parses as a
\* floating-point number; a write carrying one that does not is answered 400
\* and leaves the store unchanged.
C7_StoredFieldsAreFloats ==
  /\ \A i \in 1..Len(store) : \A f \in DOMAIN store[i].value.fields :
       ~parseFloatStr(store[i].value.fields[f]).nan
  /\ (req.method \in {"POST", "PUT", "PATCH"} /\ pc = "done" /\ ~InvalidTimestamp
      /\ \E f \in DOMAIN req.body.fields : parseFloatStr(req.body.fields[f]).nan)
       => (res.sent = <<400>> /\ store = storeBefore)

\* C8: the 'timestamp' field of the record stored at key K is K.
C8_TimestampFieldIsKey ==
  \A i \in 1..Len(store) : store[i].value.timestamp = Str(store[i].key)

\* a PATCH has been accepted and applied
PatchAccepted ==
  pc = "done" /\ req.method = "PATCH" /\ LastRan = "handler" /\ res.sent = <<204>>

\* C9: after an accepted PATCH of key K with fields F the record at K has the
\* value of F for every field of F and its former value for every other field;
\* no record at another key changes.
C9_PatchOverlays ==
  PatchAccepted =>
    LET K   == formattedTimestamp
        new == cacheGet(store, K)
        old == cacheGet(storeBefore, K)
        F   == req.body
    IN  /\ ~new.null
        /\ new.value.timestamp = F.timestamp
        /\ \A f \in DOMAIN F.fields :
             f \in DOMAIN new.value.fields /\ new.value.fields[f] = F.fields[f]
        /\ \A f \in DOMAIN new.value.fields \ DOMAIN F.fields :
             ~old.null /\ f \in DOMAIN old.value.fields
             /\ new.value.fields[f] = old.value.fields[f]
        /\ ~old.null => DOMAIN old.value.fields \subseteq DOMAIN new.value.fields
        /\ KeySet(store) = KeySet(storeBefore) \cup {K}
        /\ \A key \in KeySet(storeBefore) \ {K} :
             cacheGet(store, key) = cacheGet(storeBefore, key)

\* C9 witness: an accepted PATCH gave a new temperature to a record that keeps
\* its dewPoint.
C9_Witness ==
  /\ PatchAccepted
  /\ DOMAIN req.body.fields = {"temperature"}
  /\ "dewPoint" \in DOMAIN cacheGet(storeBefore, formattedTimestamp).value.fields
  /\ cacheGet(storeBefore, formattedTimestamp).value.fields["temperature"]
       # req.body.fields["temperature"]
  /\ "dewPoint" \in DOMAIN cacheGet(store, formattedTimestamp).value.fields

\* a POST has been accepted and stored
PostAccepted ==
  pc = "done" /\ req.method = "POST" /\ LastRan = "handler" /\ res.sent = <<201>>

\* the response to GET /measurements/<identifier> over the cache c
ReadOf(c, identifier) ==
  LET get == [method |-> "GET", params |-> Str(identifier),
              body |-> Measurement(Undefined, NoFields), query |-> NoQuery]
      v   == validateTimestamp(get, NewRes)
  IN  IF v.next THEN getResponse(c, v.formatted, v.res) ELSE v.res

\* C10 as claimed: after an accepted POST that normalizes to key K, of either
\* form, a read of K returns exactly the posted record.
C10_ReadReturnsExactlyPosted ==
  PostAccepted =>
    /\ ReadOf(store, formattedTimestamp).sent = <<200>>
    /\ ReadOf(store, formattedTimestamp).payload = [kind |-> "one", items |-> <<req.body>>]

\* C10 amended: after an accepted POST that normalizes to key K, a read of K
\* returns exactly the posted record when K is a full instant, and a list that
\* holds the posted record when K is a date.
C10_RoundTrip ==
  PostAccepted =>
    LET read == ReadOf(store, formattedTimestamp)
    IN  /\ read.sent = <<200>>
        /\ IF isTime(formattedTimestamp)
           THEN read.payload = [kind |-> "one", items |-> <<req.body>>]
           ELSE /\ read.payload.kind = "list"
                /\ \E i \in 1..Len(read.payload.items) : read.payload.items[i] = req.body

\* C10 witness: an accepted POST replaced the record of an instant already
\* stored.
C10_Witness ==
  /\ PostAccepted
  /\ isTime(formattedTimestamp)
  /\ cacheHas(storeBefore, formattedTimestamp)
  /\ cacheGet(storeBefore, formattedTimestamp).value # req.body

\* str begins with sub
BeginsWith(str, sub) == Len(sub) <= Len(str) /\ SubSeq(str, 1, Len(sub)) = sub

RECURSIVE SelectBeginning(_, _)
\* the values of the cache c whose key begins with datePrefix, in key order
SelectBeginning(c, datePrefix) ==
  IF c = <<>> THEN <<>>
  ELSE (IF BeginsWith(Head(c).key, datePrefix) THEN <<Head(c).value>> ELSE <<>>)
       \o SelectBeginning(Tail(c), datePrefix)

\* a GET addressed to a bare date has been answered by its handler
ReadByDateDone ==
  /\ pc = "done" /\ req.method = "GET" /\ LastRan = "handler"
  /\ ~isTime(formattedTimestamp)

\* C11: a read by a bare date D returns, in store key order, exactly the
\* records whose key begins with D, and returns "not found" exactly when no
\* stored key begins with D.
C11_ReadByDateIsPrefixMatch ==
  ReadByDateDone =>
    LET sameDay == SelectBeginning(store, formattedTimestamp)
    IN  IF sameDay = <<>>
        THEN res.sent = <<404>>
        ELSE /\ res.sent = <<200>>
             /\ res.payload = [kind |-> "list", items |-> sameDay]

\* some record that passes the time filter of the scan holds the metric
HoldsMetric(c, query, metric) ==
  \E k \in 1..Len(c) : Scanned(c[k].key, query) /\ metric \in DOMAIN c[k].value.fields

\* the (metric, statKind) pairs of the emitted tuples
Emitted == {<<res.payload.items[i].metric, res.payload.items[i].stat>> :
              i \in 1..Len(res.payload.items)}

\* C12: a stats query emits a tuple (metric, statKind, value) if and only if
\* the metric was requested, statKind was requested and is one of min, max,
\* average, and at least one record passing the time filter holds that metric;
\* a requested metric with zero observations and an unrecognized statistic
\* name yield no tuple and no error.
C12_TupleIffRequestedAndObserved ==
  StatsDone =>
    /\ res.sent = <<200>>
    /\ Emitted =
         {pair \in Range(req.query.metric) \X (Range(req.query.stat) \cap allowedStats) :
            HoldsMetric(store, req.query, pair[1])}

RECURSIVE SumObserved(_, _, _)
\* the sum of the metric's values, as the numbers they were accepted as, over
\* the records of c that pass the time filter and hold the metric
SumObserved(c, query, metric) ==
  IF c = <<>> THEN Num(0, 1)
  ELSE IF Scanned(Head(c).key, query) /\ metric \in DOMAIN Head(c).value.fields
       THEN NumAdd(StringToNumber(Head(c).value.fields[metric]),
                   SumObserved(Tail(c), query, metric))
       ELSE SumObserved(Tail(c), query, metric)

\* the number of those records
CountObserved(c, query, metric) ==
  Cardinality({k \in 1..Len(c) : /\ Scanned(c[k].key, query)
                                 /\ metric \in DOMAIN c[k].value.fields})

\* C13: for every stats query requesting 'average' for a metric with at least
\* one observation, the emitted value equals the sum of that metric's values
\* over all records passing the time filter divided by the number of such
\* records; records that lack the metric count neither in the sum nor in the
\* divisor.
C13_AverageIsMean ==
  StatsDone =>
    \A metric \in Range(req.query.metric) :
      ("average" \in Range(req.query.stat) /\ HoldsMetric(store, req.query, metric)) =>
        \E i \in 1..Len(res.payload.items) :
          /\ res.payload.items[i].metric = metric
          /\ res.payload.items[i].stat = "average"
          /\ NumEq(ToNumber(res.payload.items[i].value),
                   NumDiv(SumObserved(store, req.query, metric),
                          CountObserved(store, req.query, metric)))

\* a DELETE has been answered with success
DeleteAccepted ==
  pc = "done" /\ req.method = "DELETE" /\ LastRan = "handler" /\ res.sent = <<204>>

\* C14: after a DELETE addressed to identifier X (full instant or bare date) is
\* answered with success (204), no record addressed by X remains in the
\* store: a read of X issued next returns "not found"; a DELETE that removes
\* nothing is never answered with success.
C14_DeleteRemoves ==
  DeleteAccepted =>
    /\ ReadOf(store, req.params.s).sent = <<404>>
    /\ store # storeBefore

\* request i has passed its existence check and its handler has not run yet
BetweenCheckAndHandler(i) ==
  req[i].method \in {"PUT", "PATCH", "DELETE"} /\ pc[i].stage = "handler"

\* C15: with several requests in flight, the existence check and the store
\* mutation of one PUT, PATCH or DELETE request run with no store mutation of
\* another request between them, so the record the check found is still
\* stored when the handler writes or deletes it; likewise one stats scan sees
\* a single store state.
C15_CheckAndWriteNotInterleaved ==
  \A i \in Ids :
    /\ BetweenCheckAndHandler(i) =>
         /\ store = storeBefore[i]
         /\ getMeasurements(store, formattedTimestamp[i]).kind # "null"
    /\ (req[i].method = "STATS" /\ pc[i].stage = "scan") => store = storeBefore[i]
    /\ (req[i].method = "STATS" /\ pc[i].stage = "done") =>
         /\ res[i].sent = <<200>>
         /\ res[i].payload.items = calculateStats(storeBefore[i], req[i].query).output

\* C15 witness: a PUT has passed its existence check while a DELETE of the
\* same record, already received, waits for its turn of the event loop.
C15_Witness ==
  \E i, j \in Ids :
    /\ BetweenCheckAndHandler(i) /\ req[i].method = "PUT"
    /\ req[j].method = "DELETE" /\ req[j].params = req[i].params
    /\ pc[j].stage = "validateTimestamp" /\ pc[j].waiting

=============================================================================
